---- MODULE Spec2Model ----
(***************************************************************************)
(* Model of the texcompile command-line client (src/src/main.rs): one      *)
(* invocation uploads a .tex/.zip file, polls the task status at a fixed   *)
(* cadence, downloads the PDF and writes it next to the working directory. *)
(*                                                                         *)
(* Rust Option<T> values are sequences: None is <<>> and Some(v) is <<v>>. *)
(* Strings are TLA+ strings; the Cyrillic literals of the source are       *)
(* written in Latin transliteration because the module is ASCII:           *)
(*   "сек." -> "sek."   "мин." -> "min."   "ч." -> "ch."   "м." -> "m."    *)
(*   "неизвестно" -> "neizvestno"                                          *)
(***************************************************************************)
EXTENDS Integers, Sequences, FiniteSets, TLC

VARIABLES
    pc,           \* position of the single task of execution
    args,         \* Option<String>: the positional argument args[1]
    file_name,    \* Option<String>: file_name computed at main.rs:114
    task_id,      \* Option<String>: value returned by upload_file
    attempt,      \* loop variable of poll_status (0 before the loop)
    download_url, \* Option<String>: value returned by poll_status
    outcome,      \* [kind, text]: "Running", "Ok" or the error that ended the run
    written,      \* Option<String>: path of the PDF written by fs::write
    stdout,       \* status line printed by the poll iteration in progress ("" when none)
    inflight,     \* HTTP requests sent and not yet answered
    uploads,      \* POST /api/upload requests issued
    statusReqs,   \* GET /api/status/{id} requests issued
    polledIds,    \* task identifiers used in status requests
    sleeps,       \* sleeps of POLL_INTERVAL_SECS started
    downloads,    \* download requests issued
    downloadTarget, \* Option<String>: address of the download request
    nonTerminal,  \* status responses received that are not terminal
    uploadMime,   \* Option<String>: MIME type of the uploaded part
    lastUpload,   \* Option<wire response> of the upload request
    lastStatus,   \* Option<wire response> of the status request being handled
    lastDownload, \* Option<wire response> of the download request
    onlyUnknown,  \* every status response so far carried an unrecognized status
    call,         \* [fn, arg]: a utility function called on its own, or NoCall
    ret           \* Option: the value that call returned

vars == <<pc, args, file_name, task_id, attempt, download_url, outcome, written,
          stdout, inflight, uploads, statusReqs, polledIds, sleeps, downloads,
          downloadTarget, nonTerminal, uploadMime, lastUpload, lastStatus,
          lastDownload, onlyUnknown, call, ret>>

\* the state of an invocation
progVars == <<pc, args, file_name, task_id, attempt, download_url, outcome, written,
              stdout, inflight, uploads, statusReqs, polledIds, sleeps, downloads,
              downloadTarget, nonTerminal, uploadMime, lastUpload, lastStatus,
              lastDownload, onlyUnknown>>

----------------------------------------------------------------------------
(* Program constants                                                        *)

BASE_URL == "https://texcompile.ru"
POLL_INTERVAL_SECS == 5
MAX_POLL_ATTEMPTS == 120

----------------------------------------------------------------------------
(* Bounds of the explored inputs                                            *)

MaxQueuePosition == 2

----------------------------------------------------------------------------
(* Option and string helpers                                                *)

None == <<>>
Some(v) == <<v>>
\* Option::unwrap_or / unwrap_or_else
UnwrapOr(o, d) == IF o = <<>> THEN d ELSE o[1]

\* Option::or
OptionOr(a, b) == IF a # <<>> THEN a ELSE b

\* str::starts_with
StartsWith(s, p) == Len(s) >= Len(p) /\ SubSeq(s, 1, Len(p)) = p

\* str::ends_with
EndsWith(s, t) == Len(s) >= Len(t) /\ SubSeq(s, Len(s) - Len(t) + 1, Len(s)) = t

\* positions of the character c in s
Positions(s, c) == {i \in 1..Len(s) : SubSeq(s, i, i) = c}

Max(S) == CHOOSE m \in S : \A x \in S : x <= m

----------------------------------------------------------------------------
(* Status model                                                             *)

\* CompilationStatus::from_str
\* mutant: the comparison ignores the case of the first letter
FromStrLoose(s) ==
    CASE s \in {"Queued", "queued"} -> [tag |-> "Queued", raw |-> None]
      [] s \in {"Processing", "processing"} -> [tag |-> "Processing", raw |-> None]
      [] s \in {"Completed", "completed"} -> [tag |-> "Completed", raw |-> None]
      [] s \in {"Failed", "failed"} -> [tag |-> "Failed", raw |-> None]
      [] OTHER -> [tag |-> "Unknown", raw |-> Some(s)]

from_str(s) ==
    CASE s = "Queued" -> [tag |-> "Queued", raw |-> None]
      [] s = "Processing" -> [tag |-> "Processing", raw |-> None]
      [] s = "Completed" -> [tag |-> "Completed", raw |-> None]
      [] s = "Failed" -> [tag |-> "Failed", raw |-> None]
      [] OTHER -> [tag |-> "Unknown", raw |-> Some(s)]

\* StatusData::compilation_status
compilation_status(d) == from_str(d.status)

\* mutant: the seconds tier reaches one second too far
FormatMillisecondsOffByOne(ms) ==
    LET seconds == ms \div 1000 IN
    IF seconds <= 60
    THEN ToString(seconds) \o " sek."
    ELSE LET minutes == seconds \div 60
             remaining_seconds == seconds % 60 IN
         IF minutes < 60
         THEN ToString(minutes) \o " min. " \o ToString(remaining_seconds) \o " sek."
         ELSE LET hours == minutes \div 60
                  remaining_minutes == minutes % 60 IN
              ToString(hours) \o " ch. " \o ToString(remaining_minutes) \o " m."

\* format_milliseconds (u64 division and remainder; no overflow is possible)
format_milliseconds(ms) ==
    LET seconds == ms \div 1000 IN
    IF seconds < 60
    THEN ToString(seconds) \o " sek."
    ELSE LET minutes == seconds \div 60
             remaining_seconds == seconds % 60 IN
         IF minutes < 60
         THEN ToString(minutes) \o " min. " \o ToString(remaining_seconds) \o " sek."
         ELSE LET hours == minutes \div 60
                  remaining_minutes == minutes % 60 IN
              ToString(hours) \o " ch. " \o ToString(remaining_minutes) \o " m."

\* mutant: an absent duration is rendered as the default value 0
FormatDurationDefault(d) ==
    IF d.duration = None THEN format_milliseconds(0) ELSE format_milliseconds(d.duration[1])

\* StatusData::format_duration
format_duration(d) ==
    IF d.duration = None THEN "neizvestno" ELSE format_milliseconds(d.duration[1])

----------------------------------------------------------------------------
(* Path and naming utilities                                                *)

\* mutant: other names fall back to a generic type instead of being rejected
MimeOctetFallback(filename) ==
    IF EndsWith(filename, ".tex") THEN Some("text/x-tex")
    ELSE IF EndsWith(filename, ".zip") THEN Some("application/zip")
    ELSE Some("application/octet-stream")

\* mime_type_from_filename: Some(mime) or None for the bail! branch
mime_type_from_filename(filename) ==
    IF EndsWith(filename, ".tex") THEN Some("text/x-tex")
    ELSE IF EndsWith(filename, ".zip") THEN Some("application/zip")
    ELSE None

\* Path::new(p).file_name(): the last component; None when it is "..".
\* (the paths explored have no trailing separator and no "." component)
PathFileName(p) ==
    LET seps == Positions(p, "/")
        last == IF seps = {} THEN p ELSE SubSeq(p, Max(seps) + 1, Len(p)) IN
    IF last = ".." \/ last = "" THEN None ELSE Some(last)

\* Path::file_stem of a file name: the whole name when it has no '.', or when
\* its only '.' is the leading one; else the part before the final '.'.
PathFileStem(name) ==
    LET dots == Positions(name, ".") IN
    IF name = ".." \/ name = "" THEN None
    ELSE IF dots = {} \/ Max(dots) = 1 THEN Some(name)
    ELSE Some(SubSeq(name, 1, Max(dots) - 1))

\* generate_output_path: Some(path) or None for the "Invalid file name" error
generate_output_path(input_file_name) ==
    LET output_name == PathFileStem(input_file_name) IN
    IF output_name = None THEN None ELSE Some(output_name[1] \o ".pdf")

\* mutant: any reference that begins with "http" is taken as absolute
NormalizeUrlLoosePrefix(url) ==
    IF StartsWith(url, "http") THEN url
    ELSE IF StartsWith(url, "/") THEN BASE_URL \o url
    ELSE BASE_URL \o "/" \o url

\* normalize_url
normalize_url(url) ==
    IF StartsWith(url, "http://") \/ StartsWith(url, "https://") THEN url
    ELSE IF StartsWith(url, "/") THEN BASE_URL \o url
    ELSE BASE_URL \o "/" \o url

----------------------------------------------------------------------------
(* Wire responses.  A response is [net, http, json]: net is FALSE when     *)
(* send() itself failed, http is the status code, json is the body parsed  *)
(* as a JSON object (None when the body is not a JSON document of the      *)
(* expected shape).                                                        *)

TaskIds == {"t1", "t2"}

\* bodies of POST /api/upload: {success, data: {taskId}?, error?, message?}
UploadBodies ==
    [success : {FALSE},
     data : {None, Some("t1")},
     error : {None, Some("file too large")},
     message : {None, Some("try later")}]
    \cup [success : {TRUE}, data : {None} \cup {Some(t) : t \in TaskIds},
          error : {None}, message : {None}]

UploadWire ==
    [net : {TRUE}, http : {200, 500}, json : {None} \cup {Some(b) : b \in UploadBodies}]
    \cup [net : {FALSE}, http : {0}, json : {None}]

StatusStrings == {"Queued", "Processing", "Completed", "Failed", "completed", "failed", ""}

\* the data objects of GET /api/status/{taskId} that are explored: every
\* status string with the optional members it is read with, present and absent
Durations == {None, Some(0), Some(12000)}

StatusDatas ==
    [status : {"Queued"}, downloadUrl : {None}, errorMessage : {None},
     duration : Durations,
     queuePosition : {None} \cup {Some(n) : n \in 0..MaxQueuePosition}]
    \cup [status : StatusStrings \ {"Queued", "Completed", "Failed"},
          downloadUrl : {None, Some("/files/out.pdf")}, errorMessage : {None},
          duration : Durations, queuePosition : {None}]
    \cup [status : {"Completed"},
          downloadUrl : {None, Some("/files/out.pdf"), Some("https://cdn.example/out.pdf"),
                         Some("out.pdf")},
          errorMessage : {None}, duration : Durations, queuePosition : {None}]
    \cup [status : {"Failed"}, downloadUrl : {None, Some("/files/out.pdf")},
          errorMessage : {None, Some("missing package")},
          duration : Durations, queuePosition : {None}]

CompletedData ==
    [status |-> "Completed", downloadUrl |-> Some("/files/out.pdf"),
     errorMessage |-> None, duration |-> Some(12000), queuePosition |-> None]

\* bodies of the status endpoint; the service may send `message` as it does
\* for uploads
StatusBodies ==
    [success : {TRUE}, data : {None} \cup {Some(d) : d \in StatusDatas},
     error : {None}, message : {None}]
    \cup [success : {FALSE}, data : {None, Some(CompletedData)},
          error : {None, Some("task not found")},
          message : {None, Some("try later")}]

StatusWire ==
    [net : {TRUE}, http : {200}, json : {None} \cup {Some(b) : b \in StatusBodies}]
    \cup [net : {TRUE}, http : {500},
          json : {None, Some([success |-> TRUE, data |-> Some(CompletedData),
                              error |-> None, message |-> None])}]
    \cup [net : {FALSE}, http : {0}, json : {None}]

\* responses of the download request: bytes is FALSE when reading the body fails
DownloadWire ==
    [net : {TRUE}, http : {200, 404}, bytes : BOOLEAN]
    \cup [net : {FALSE}, http : {0}, bytes : {FALSE}]

\* mutant: only the lower end of the 2xx range is checked
IsSuccessLoose(http) == 200 <= http

\* StatusCode::is_success
is_success(http) == 200 <= http /\ http <= 299

----------------------------------------------------------------------------
(* Response decoder                                                         *)

\* serde: UploadResponse {success, data, error, message}
DecodeUploadResponse(b) ==
    [success |-> b.success, data |-> b.data, error |-> b.error, message |-> b.message]

\* serde: StatusResponse {success, data, error}; other members of the JSON
\* object are ignored
DecodeStatusResponse(b) ==
    [success |-> b.success, data |-> b.data, error |-> b.error]

\* mutant: message takes precedence over error
UploadErrorMsgMessageFirst(r) == UnwrapOr(OptionOr(r.message, r.error), "Unknown error")

\* error text of a failed upload envelope
UploadErrorMsg(r) == UnwrapOr(OptionOr(r.error, r.message), "Unknown error")

\* error text of a failed status envelope
StatusErrorMsg(r) == UnwrapOr(r.error, "Unknown error")

----------------------------------------------------------------------------
(* Results of the steps                                                     *)

Running == [kind |-> "Running", text |-> ""]
Ok == [kind |-> "Ok", text |-> ""]
Err(k, t) == [kind |-> k, text |-> t]

\* upload_file after the response arrived: [task, err]
upload_result(w) ==
    IF ~w.net
    THEN [task |-> None, err |-> Err("TransportError", "Failed to submit form")]
    ELSE IF ~is_success(w.http)
    THEN [task |-> None,
          err |-> Err("TransportError",
                      "Upload failed with status " \o ToString(w.http))]
    ELSE IF w.json = None
    THEN [task |-> None, err |-> Err("DecodeError", "Failed to parse upload response")]
    ELSE LET upload_response == DecodeUploadResponse(w.json[1]) IN
         IF ~upload_response.success
         THEN [task |-> None,
               err |-> Err("ProtocolError",
                           "Upload failed: " \o UploadErrorMsg(upload_response))]
         ELSE IF upload_response.data = None
         THEN [task |-> None, err |-> Err("MissingField", "No task ID in response")]
         ELSE [task |-> upload_response.data, err |-> Ok]

\* The arms of the match on compilation_status().  Each yields
\* [ctl, url, err, line]: how the iteration ends ("continue", "return",
\* "bail"), the value returned, the error raised and the line printed.

\* mutant: an absent queue position is read as the default value 0
QueuedArmDefaultZero(status_data) ==
    LET pos == UnwrapOr(status_data.queuePosition, 0)
        queue_info == " (position: " \o ToString(pos) \o ")"
        duration_info == format_duration(status_data) IN
    [ctl |-> "continue", url |-> None, err |-> Ok,
     line |-> "Status: Queued" \o queue_info \o " | Time in queue: " \o duration_info]

\* CompilationStatus::Queued
queued_arm(status_data) ==
    LET pos == status_data.queuePosition
        queue_info == IF pos # None /\ pos[1] > 0
                      THEN " (position: " \o ToString(pos[1]) \o ")"
                      ELSE ""
        duration_info == format_duration(status_data) IN
    [ctl |-> "continue", url |-> None, err |-> Ok,
     line |-> "Status: Queued" \o queue_info \o " | Time in queue: " \o duration_info]

\* CompilationStatus::Processing
processing_arm(status_data) ==
    [ctl |-> "continue", url |-> None, err |-> Ok,
     line |-> "Status: Processing... | Time: " \o format_duration(status_data)]

\* mutant: the arm prints and falls through instead of returning
CompletedArmNoReturn(status_data) ==
    [ctl |-> "continue", url |-> None, err |-> Ok,
     line |-> "Status: Completed! | Compilation time: " \o format_duration(status_data)]

\* mutant: a missing download reference defaults to the empty string
CompletedArmEmptyUrl(status_data) ==
    [ctl |-> "return", url |-> Some(UnwrapOr(status_data.downloadUrl, "")), err |-> Ok,
     line |-> "Status: Completed! | Compilation time: " \o format_duration(status_data)]

\* CompilationStatus::Completed
completed_arm(status_data) ==
    LET line == "Status: Completed! | Compilation time: "
                \o format_duration(status_data) IN
    IF status_data.downloadUrl = None
    THEN [ctl |-> "bail", url |-> None,
          err |-> Err("MissingField", "No download URL in completed status"),
          line |-> line]
    ELSE [ctl |-> "return", url |-> status_data.downloadUrl, err |-> Ok, line |-> line]

\* CompilationStatus::Failed
failed_arm(status_data) ==
    LET duration_info == format_duration(status_data)
        error_msg == UnwrapOr(status_data.errorMessage, "Unknown error") IN
    [ctl |-> "bail", url |-> None, line |-> "",
     err |-> Err("CompilationFailed",
                 "Compilation failed after " \o duration_info \o ": " \o error_msg)]

\* mutant: an unrecognized status aborts the wait
UnknownArmBails(status) ==
    [ctl |-> "bail", url |-> None, line |-> "",
     err |-> Err("ProtocolError", "Unknown status: " \o status)]

\* CompilationStatus::Unknown(status)
unknown_arm(status) ==
    [ctl |-> "continue", url |-> None, err |-> Ok,
     line |-> "Status: " \o status \o " (unknown)"]

\* the match on compilation_status()
match_status(status_data) ==
    LET st == compilation_status(status_data) IN
    CASE st.tag = "Queued" -> queued_arm(status_data)
      [] st.tag = "Processing" -> processing_arm(status_data)
      [] st.tag = "Completed" -> completed_arm(status_data)
      [] st.tag = "Failed" -> failed_arm(status_data)
      [] OTHER -> unknown_arm(st.raw[1])

\* mutant: the data is matched before the success flag is looked at
PollResultDataFirst(w) ==
    IF ~w.net
    THEN [ctl |-> "bail", url |-> None, line |-> "",
          err |-> Err("TransportError", "Failed to check status")]
    ELSE IF ~is_success(w.http)
    THEN [ctl |-> "bail", url |-> None, line |-> "",
          err |-> Err("TransportError",
                      "Status check failed with status " \o ToString(w.http))]
    ELSE IF w.json = None
    THEN [ctl |-> "bail", url |-> None, line |-> "",
          err |-> Err("DecodeError", "Failed to parse status response")]
    ELSE LET status_response == DecodeStatusResponse(w.json[1]) IN
         IF status_response.data # None
         THEN match_status(status_response.data[1])
         ELSE IF ~status_response.success
         THEN [ctl |-> "bail", url |-> None, line |-> "",
               err |-> Err("ProtocolError",
                           "Status check returned error: "
                           \o StatusErrorMsg(status_response))]
         ELSE [ctl |-> "bail", url |-> None, line |-> "",
               err |-> Err("MissingField", "No status data in response")]

\* one iteration of poll_status from the response to the match
poll_result(w) ==
    IF ~w.net
    THEN [ctl |-> "bail", url |-> None, line |-> "",
          err |-> Err("TransportError", "Failed to check status")]
    ELSE IF ~is_success(w.http)
    THEN [ctl |-> "bail", url |-> None, line |-> "",
          err |-> Err("TransportError",
                      "Status check failed with status " \o ToString(w.http))]
    ELSE IF w.json = None
    THEN [ctl |-> "bail", url |-> None, line |-> "",
          err |-> Err("DecodeError", "Failed to parse status response")]
    ELSE LET status_response == DecodeStatusResponse(w.json[1]) IN
         IF ~status_response.success
         THEN [ctl |-> "bail", url |-> None, line |-> "",
               err |-> Err("ProtocolError",
                           "Status check returned error: "
                           \o StatusErrorMsg(status_response))]
         ELSE IF status_response.data = None
         THEN [ctl |-> "bail", url |-> None, line |-> "",
               err |-> Err("MissingField", "No status data in response")]
         ELSE match_status(status_response.data[1])

\* mutant: the HTTP status of the download is not checked
DownloadResultNoStatusCheck(w) ==
    IF ~w.net THEN Err("TransportError", "Failed to download PDF")
    ELSE IF ~w.bytes THEN Err("TransportError", "Failed to read PDF bytes")
    ELSE Ok

\* download_pdf after the response arrived
download_result(w) ==
    IF ~w.net THEN Err("TransportError", "Failed to download PDF")
    ELSE IF ~is_success(w.http)
    THEN Err("TransportError", "Filed to download PDF: status: " \o ToString(w.http))
    ELSE IF ~w.bytes THEN Err("TransportError", "Failed to read PDF bytes")
    ELSE Ok

\* mutant: the loop polls again at once
ShouldSleepNever(a) == FALSE

\* mutant: the sleep also follows the last attempt
ShouldSleepAlways(a) == a <= MAX_POLL_ATTEMPTS

\* the guard of the sleep at the end of an iteration
ShouldSleep(a) == a < MAX_POLL_ATTEMPTS

\* mutant: the loop has no upper limit
LoopForever(a) == TRUE

\* the range 1..=MAX_POLL_ATTEMPTS of the for loop: another iteration follows a
LoopContinues(a) == a < MAX_POLL_ATTEMPTS

PollTimeout ==
    Err("PollTimeout",
        "Compilation timeout after " \o ToString(MAX_POLL_ATTEMPTS) \o " attempts")

----------------------------------------------------------------------------
(* Responses as the specification describes them, used to state the        *)
(* properties independently of the client's own classification             *)

KnownStatuses == {"Queued", "Processing", "Completed", "Failed"}

\* a status response that is HTTP-success, success=true and has data
StatusDelivered(w) ==
    /\ w.net
    /\ w.http \in 200..299
    /\ w.json # None
    /\ w.json[1].success
    /\ w.json[1].data # None

StatusOf(w) == w.json[1].data[1]

IsNonTerminal(w) == StatusDelivered(w) /\ StatusOf(w).status \notin {"Completed", "Failed"}

IsUnknown(w) == StatusDelivered(w) /\ StatusOf(w).status \notin KnownStatuses

IsCompletedWithUrl(w) ==
    /\ StatusDelivered(w)
    /\ StatusOf(w).status = "Completed"
    /\ StatusOf(w).downloadUrl # None

IsFailed(w) == StatusDelivered(w) /\ StatusOf(w).status = "Failed"

\* request failure or non-success HTTP status
IsTransportError(w) == ~w.net \/ w.http \notin 200..299

\* an envelope whose success flag is false
IsFailureEnvelope(w) ==
    ~IsTransportError(w) /\ w.json # None /\ ~w.json[1].success

\* an upload response carrying a task identifier
UploadDelivered(w) ==
    /\ ~IsTransportError(w)
    /\ w.json # None
    /\ w.json[1].success
    /\ w.json[1].data # None

\* sub occurs in s
Contains(s, sub) ==
    \E i \in 1..(Len(s) - Len(sub) + 1) : SubSeq(s, i, i + Len(sub) - 1) = sub

\* the three renderings of a duration
SecondsForm(s) == EndsWith(s, " sek.") /\ ~Contains(s, " min. ") /\ ~Contains(s, " ch. ")
MinutesForm(s) == EndsWith(s, " sek.") /\ Contains(s, " min. ") /\ ~Contains(s, " ch. ")
HoursForm(s) == EndsWith(s, " m.") /\ Contains(s, " ch. ") /\ ~Contains(s, " sek.")

\* a download response whose bytes were read
DownloadDelivered(w) == w.net /\ w.http \in 200..299 /\ w.bytes

\* the service error text of a failure envelope: error, else message, else
\* the generic fallback
ServiceErrorText(b) ==
    IF b.error # None THEN b.error[1]
    ELSE IF b.message # None THEN b.message[1]
    ELSE "Unknown error"

----------------------------------------------------------------------------
(* The invocation                                                           *)

\* command lines explored: no argument, or one path
Paths == {"paper.tex", "docs/archive.tar.zip", ".tex", "report", "notes.txt"}

\* no utility function is called on its own during an invocation
NoCall == [fn |-> "none", arg |-> ""]

Init ==
    /\ pc = "main"
    /\ args \in {None} \cup {Some(p) : p \in Paths}
    /\ call = NoCall
    /\ ret = None
    /\ file_name = None
    /\ task_id = None
    /\ attempt = 0
    /\ download_url = None
    /\ outcome = Running
    /\ written = None
    /\ stdout = ""
    /\ inflight = 0
    /\ uploads = 0
    /\ statusReqs = 0
    /\ polledIds = {}
    /\ sleeps = 0
    /\ downloads = 0
    /\ downloadTarget = None
    /\ nonTerminal = 0
    /\ uploadMime = None
    /\ lastUpload = None
    /\ lastStatus = None
    /\ lastDownload = None
    /\ onlyUnknown = TRUE

\* an error propagated by `?` out of compile_and_download and main
Fail(e) == pc' = "failed" /\ outcome' = e

\* main: usage check
Main ==
    /\ pc = "main"
    /\ IF args = None
       THEN Fail(Err("Usage", "Usage: <path_to_tex_or_zip_file>"))
       ELSE pc' = "read" /\ outcome' = outcome
    /\ UNCHANGED <<call, ret, args, file_name, task_id, attempt, download_url, written, stdout,
                   inflight, uploads, statusReqs, polledIds, sleeps, downloads,
                   downloadTarget, nonTerminal, uploadMime, lastUpload, lastStatus,
                   lastDownload, onlyUnknown>>

\* compile_and_download: fs::read and file_name
ReadInput ==
    /\ pc = "read"
    /\ \E readable \in BOOLEAN :
         IF ~readable
         THEN /\ Fail(Err("InputError", "Failed to read file: " \o args[1]))
              /\ file_name' = file_name
         ELSE LET name == PathFileName(args[1]) IN
              IF name = None
              THEN Fail(Err("InputError", "Invalid file name")) /\ file_name' = file_name
              ELSE pc' = "upload_send" /\ file_name' = name /\ outcome' = outcome
    /\ UNCHANGED <<call, ret, args, task_id, attempt, download_url, written, stdout,
                   inflight, uploads, statusReqs, polledIds, sleeps, downloads,
                   downloadTarget, nonTerminal, uploadMime, lastUpload, lastStatus,
                   lastDownload, onlyUnknown>>

\* mutant: the upload is started and the poll loop entered without awaiting it
UploadSendNoAwait ==
    /\ pc = "upload_send"
    /\ LET mime == mime_type_from_filename(file_name[1]) IN
       IF mime = None
       THEN /\ Fail(Err("UnsupportedFileType",
                        "Unsupported file type. Expected .tex or .zip"))
            /\ UNCHANGED <<uploads, inflight, uploadMime, attempt>>
       ELSE /\ uploads' = uploads + 1
            /\ inflight' = inflight + 1
            /\ uploadMime' = mime
            /\ attempt' = 1
            /\ pc' = "poll_send"
            /\ outcome' = outcome
    /\ UNCHANGED <<call, ret, args, file_name, task_id, download_url, written, stdout,
                   statusReqs, polledIds, sleeps, downloads, downloadTarget,
                   nonTerminal, lastUpload, lastStatus, lastDownload, onlyUnknown>>

\* upload_file up to send().await
UploadSend ==
    /\ pc = "upload_send"
    /\ LET mime == mime_type_from_filename(file_name[1]) IN
       IF mime = None
       THEN /\ Fail(Err("UnsupportedFileType",
                        "Unsupported file type. Expected .tex or .zip"))
            /\ UNCHANGED <<uploads, inflight, uploadMime>>
       ELSE /\ uploads' = uploads + 1
            /\ inflight' = inflight + 1
            /\ uploadMime' = mime
            /\ pc' = "upload_wait"
            /\ outcome' = outcome
    /\ UNCHANGED <<call, ret, args, file_name, task_id, attempt, download_url, written, stdout,
                   statusReqs, polledIds, sleeps, downloads, downloadTarget,
                   nonTerminal, lastUpload, lastStatus,
                   lastDownload, onlyUnknown>>

\* upload_file from the response on; on success poll_status is entered
UploadRecv ==
    /\ pc = "upload_wait"
    /\ \E w \in UploadWire :
         LET res == upload_result(w) IN
         /\ lastUpload' = Some(w)
         /\ inflight' = inflight - 1
         /\ IF res.err = Ok
            THEN /\ task_id' = res.task
                 /\ attempt' = 1
                 /\ pc' = "poll_send"
                 /\ outcome' = outcome
            ELSE /\ Fail(res.err)
                 /\ UNCHANGED <<task_id, attempt>>
    /\ UNCHANGED <<call, ret, args, file_name, download_url, written, stdout, uploads,
                   statusReqs, polledIds, sleeps, downloads, downloadTarget,
                   nonTerminal, uploadMime, lastStatus,
                   lastDownload, onlyUnknown>>

\* poll_status: the status request of one attempt
StatusSend ==
    /\ pc = "poll_send"
    /\ statusReqs' = statusReqs + 1
    /\ polledIds' = polledIds \cup {task_id[1]}
    /\ inflight' = inflight + 1
    /\ pc' = "poll_wait"
    /\ UNCHANGED <<call, ret, args, file_name, task_id, attempt, download_url, outcome, written,
                   stdout, uploads, sleeps, downloads, downloadTarget, nonTerminal,
                   uploadMime, lastUpload, lastStatus,
                   lastDownload, onlyUnknown>>

\* poll_status: one response, its classification, and the sleep that follows
StatusRecv ==
    /\ pc = "poll_wait"
    /\ \E w \in StatusWire :
         LET res == poll_result(w) IN
         /\ lastStatus' = Some(w)
         /\ onlyUnknown' = (onlyUnknown /\ IsUnknown(w))
         /\ inflight' = inflight - 1
         /\ stdout' = res.line
         /\ nonTerminal' = IF IsNonTerminal(w) THEN nonTerminal + 1 ELSE nonTerminal
         /\ CASE res.ctl = "bail" ->
                   /\ Fail(res.err)
                   /\ UNCHANGED <<download_url, sleeps>>
              [] res.ctl = "return" ->
                   /\ download_url' = res.url
                   /\ pc' = "download_send"
                   /\ UNCHANGED <<outcome, sleeps>>
              [] OTHER ->
                   /\ download_url' = download_url
                   /\ IF ShouldSleep(attempt)
                      THEN sleeps' = sleeps + 1 /\ pc' = "sleeping" /\ outcome' = outcome
                      ELSE /\ sleeps' = sleeps
                           /\ IF LoopContinues(attempt)
                              THEN pc' = "next_attempt" /\ outcome' = outcome
                              ELSE Fail(PollTimeout)
    /\ UNCHANGED <<call, ret, args, file_name, task_id, attempt, written, uploads, statusReqs,
                   polledIds, downloads, downloadTarget, uploadMime, lastUpload,
                   lastDownload>>

\* poll_status: the end of an iteration, after the sleep if there was one
NextAttempt ==
    /\ pc \in {"sleeping", "next_attempt"}
    /\ lastStatus' = None
    /\ stdout' = ""
    /\ IF LoopContinues(attempt)
       THEN attempt' = attempt + 1 /\ pc' = "poll_send" /\ outcome' = outcome
       ELSE attempt' = attempt /\ Fail(PollTimeout)
    /\ UNCHANGED <<call, ret, args, file_name, task_id, download_url, written, inflight,
                   uploads, statusReqs, polledIds, sleeps, downloads, downloadTarget,
                   nonTerminal, uploadMime, lastUpload,
                   lastDownload, onlyUnknown>>

\* download_pdf up to send().await
DownloadSend ==
    /\ pc = "download_send"
    /\ downloadTarget' = Some(normalize_url(download_url[1]))
    /\ downloads' = downloads + 1
    /\ inflight' = inflight + 1
    /\ pc' = "download_wait"
    /\ UNCHANGED <<call, ret, args, file_name, task_id, attempt, download_url, outcome, written,
                   stdout, uploads, statusReqs, polledIds, sleeps, nonTerminal,
                   uploadMime, lastUpload, lastStatus,
                   lastDownload, onlyUnknown>>

\* download_pdf from the response on
DownloadRecv ==
    /\ pc = "download_wait"
    /\ inflight' = inflight - 1
    /\ \E w \in DownloadWire :
         LET res == download_result(w) IN
         /\ lastDownload' = Some(w)
         /\ IF res = Ok THEN pc' = "write" /\ outcome' = outcome ELSE Fail(res)
    /\ UNCHANGED <<call, ret, args, file_name, task_id, attempt, download_url, written, stdout,
                   uploads, statusReqs, polledIds, sleeps, downloads, downloadTarget,
                   nonTerminal, uploadMime, lastUpload, lastStatus,
                   onlyUnknown>>

\* compile_and_download: generate_output_path and fs::write
WriteOutput ==
    /\ pc = "write"
    /\ LET output_path == generate_output_path(file_name[1]) IN
       IF output_path = None
       THEN Fail(Err("InputError", "Invalid file name")) /\ written' = written
       ELSE \E ok \in BOOLEAN :
              IF ok
              THEN written' = output_path /\ pc' = "done" /\ outcome' = Ok
              ELSE /\ Fail(Err("OutputError",
                               "Failed to write PDF file: " \o output_path[1]))
                   /\ written' = written
    /\ UNCHANGED <<call, ret, args, file_name, task_id, attempt, download_url, stdout, inflight,
                   uploads, statusReqs, polledIds, sleeps, downloads, downloadTarget,
                   nonTerminal, uploadMime, lastUpload, lastStatus,
                   lastDownload, onlyUnknown>>

Next ==
    \/ Main
    \/ ReadInput
    \/ UploadSend
    \/ UploadRecv
    \/ StatusSend
    \/ StatusRecv
    \/ NextAttempt
    \/ DownloadSend
    \/ DownloadRecv
    \/ WriteOutput

Spec == Init /\ [][Next]_vars

\* every HTTP call and every sleep returns, so an enabled step is eventually
\* taken (the invocation is one sequential task)
FairSpec == Spec /\ WF_vars(Next)

\* the process exit status: 0 when main returns Ok, 1 otherwise
ExitCode == IF outcome.kind = "Ok" THEN 0 ELSE 1

Terminated == pc \in {"done", "failed"}

----------------------------------------------------------------------------
(* The utility functions called on their own: the argument is drawn in the *)
(* initial state and one action applies the function to it.                *)

MaxTokens == 4
MaxDelta == 2

\* the pieces reference strings are built from
Tokens == {"http:", "https:", "HTTP:", "/", "a"}

RECURSIVE Concats(_)
\* the strings made of at most n tokens
Concats(n) ==
    IF n = 0 THEN {""}
    ELSE LET S == Concats(n - 1) IN S \cup {s \o t : s \in S, t \in Tokens}

RefStrings == Concats(MaxTokens)

\* millisecond counts around the tier limits of format_milliseconds
DurationBases ==
    {0, 1000, 59000, 60000, 61000, 3599000, 3600000, 3661000, 7200000, 360000000}

DurationInputs ==
    {None} \cup
    UNION {{Some(b + d) : d \in {x \in -MaxDelta..MaxDelta : b + x >= 0}} :
           b \in DurationBases}

Calls ==
    [fn : {"normalize_url"}, arg : RefStrings]
    \cup [fn : {"format_duration"}, arg : DurationInputs]

PureInit ==
    /\ pc = "main"
    /\ args = None
    /\ call \in Calls
    /\ ret = None
    /\ file_name = None
    /\ task_id = None
    /\ attempt = 0
    /\ download_url = None
    /\ outcome = Running
    /\ written = None
    /\ stdout = ""
    /\ inflight = 0
    /\ uploads = 0
    /\ statusReqs = 0
    /\ polledIds = {}
    /\ sleeps = 0
    /\ downloads = 0
    /\ downloadTarget = None
    /\ nonTerminal = 0
    /\ uploadMime = None
    /\ lastUpload = None
    /\ lastStatus = None
    /\ lastDownload = None
    /\ onlyUnknown = TRUE

\* normalize_url(url)
CallNormalizeUrl ==
    /\ call.fn = "normalize_url"
    /\ ret = None
    /\ ret' = Some(normalize_url(call.arg))
    /\ UNCHANGED <<call, progVars>>

\* StatusData::format_duration on a status whose duration is the argument
CallFormatDuration ==
    /\ call.fn = "format_duration"
    /\ ret = None
    /\ ret' = Some(format_duration([duration |-> call.arg]))
    /\ UNCHANGED <<call, progVars>>

PureNext ==
    \/ CallNormalizeUrl
    \/ CallFormatDuration

PureSpec == PureInit /\ [][PureNext]_vars

----------------------------------------------------------------------------
(* Properties                                                               *)

\* C1: when the k-th status response is Completed with a download reference
\* and the k-1 responses before it were non-terminal, the wait has issued
\* exactly k status requests, slept exactly k-1 times and returned that
\* reference; this stays so in every later state (no request or sleep follows).
C1_SuccessPath ==
    (lastStatus # None /\ IsCompletedWithUrl(lastStatus[1])) =>
        /\ pc \in {"download_send", "download_wait", "write", "done", "failed"}
        /\ download_url = StatusOf(lastStatus[1]).downloadUrl
        /\ statusReqs \in 1..MAX_POLL_ATTEMPTS
        /\ statusReqs = nonTerminal + 1
        /\ sleeps = nonTerminal
        /\ outcome.kind \notin {"PollTimeout", "CompilationFailed", "ProtocolError",
                                "MissingField"}

\* Completed arrives on the last attempt the budget allows
C1_Witness ==
    /\ lastStatus # None
    /\ IsCompletedWithUrl(lastStatus[1])
    /\ statusReqs = MAX_POLL_ATTEMPTS
    /\ sleeps = MAX_POLL_ATTEMPTS - 1
    /\ download_url = Some("/files/out.pdf")

\* C2: MAX_POLL_ATTEMPTS consecutive non-terminal responses end the wait
\* with PollTimeout after exactly MAX_POLL_ATTEMPTS requests and one sleep
\* fewer; there is never one request more.
C2_Timeout ==
    /\ statusReqs <= MAX_POLL_ATTEMPTS
    /\ nonTerminal = MAX_POLL_ATTEMPTS => outcome.kind = "PollTimeout"
    /\ outcome.kind = "PollTimeout" =>
           /\ pc = "failed"
           /\ nonTerminal = MAX_POLL_ATTEMPTS
           /\ statusReqs = MAX_POLL_ATTEMPTS
           /\ sleeps = MAX_POLL_ATTEMPTS - 1
           /\ downloads = 0

C2_Witness ==
    /\ outcome.kind = "PollTimeout"
    /\ nonTerminal = MAX_POLL_ATTEMPTS
    /\ lastStatus # None
    /\ StatusOf(lastStatus[1]).status = "Queued"

\* C3: a Failed status aborts the wait at that attempt with
\* CompilationFailed carrying the formatted duration (the unknown marker
\* when absent) and the errorMessage (or "Unknown error"); no request, sleep
\* or download follows.
C3_CompilationFailed ==
    (lastStatus # None /\ IsFailed(lastStatus[1])) =>
        LET d == StatusOf(lastStatus[1])
            dur == IF d.duration = None THEN "neizvestno"
                   ELSE format_milliseconds(d.duration[1])
            msg == IF d.errorMessage = None THEN "Unknown error"
                   ELSE d.errorMessage[1] IN
        /\ pc = "failed"
        /\ outcome.kind = "CompilationFailed"
        /\ outcome.text = "Compilation failed after " \o dur \o ": " \o msg
        /\ (d.duration = Some(12000) /\ d.errorMessage = Some("missing package")) =>
               outcome.text = "Compilation failed after 12 sek.: missing package"
        /\ statusReqs = nonTerminal + 1
        /\ sleeps = nonTerminal
        /\ downloads = 0
        /\ inflight = 0

C3_Witness ==
    /\ lastStatus # None
    /\ IsFailed(lastStatus[1])
    /\ StatusOf(lastStatus[1]).duration = Some(12000)
    /\ StatusOf(lastStatus[1]).errorMessage = Some("missing package")
    /\ statusReqs = 3
    /\ outcome.kind = "CompilationFailed"

\* C4: a poll that ends in a transport error or in a failure envelope
\* aborts the wait at that attempt: the invocation has failed, the poll was
\* not retried, and no request, sleep or download follows.
C4_FailFast ==
    (lastStatus # None
     /\ (IsTransportError(lastStatus[1]) \/ IsFailureEnvelope(lastStatus[1]))) =>
        /\ pc = "failed"
        /\ outcome.kind = IF IsTransportError(lastStatus[1])
                          THEN "TransportError" ELSE "ProtocolError"
        /\ statusReqs = nonTerminal + 1
        /\ sleeps = nonTerminal
        /\ downloads = 0
        /\ inflight = 0
        /\ written = None

\* a non-success HTTP response whose body would decode to Completed, with
\* attempts remaining
C4_Witness ==
    /\ lastStatus # None
    /\ lastStatus[1].net
    /\ lastStatus[1].http = 500
    /\ lastStatus[1].json # None
    /\ statusReqs = 2
    /\ pc = "failed"

\* C5: an unrecognized status is handled as Queued and Processing are: it
\* prints a progress line and the loop goes on to its sleep (or, on the last
\* attempt, to PollTimeout); a wait that saw only unrecognized statuses ends
\* in PollTimeout after MAX_POLL_ATTEMPTS requests.
C5_UnknownNonTerminal ==
    /\ (lastStatus # None /\ IsNonTerminal(lastStatus[1])) =>
           /\ nonTerminal = statusReqs
           /\ IF statusReqs < MAX_POLL_ATTEMPTS
              THEN pc = "sleeping" /\ outcome = Running /\ sleeps = statusReqs
              ELSE pc = "failed" /\ outcome.kind = "PollTimeout"
    /\ (lastStatus # None /\ IsUnknown(lastStatus[1])) =>
           stdout = "Status: " \o StatusOf(lastStatus[1]).status \o " (unknown)"
    /\ (onlyUnknown /\ lastStatus # None /\ Terminated) =>
           /\ outcome.kind = "PollTimeout"
           /\ statusReqs = MAX_POLL_ATTEMPTS

C5_Witness ==
    /\ onlyUnknown
    /\ lastStatus # None
    /\ StatusOf(lastStatus[1]).status = "completed"
    /\ outcome.kind = "PollTimeout"

\* C6: a file name that ends neither in .tex nor in .zip fails with
\* UnsupportedFileType and no HTTP request is issued; a name ending in .tex
\* is uploaded as text/x-tex and one ending in .zip as application/zip.
C6_UnsupportedFileType ==
    (file_name # None /\ pc # "upload_send") =>
        IF EndsWith(file_name[1], ".tex")
        THEN uploads = 1 /\ uploadMime = Some("text/x-tex")
        ELSE IF EndsWith(file_name[1], ".zip")
        THEN uploads = 1 /\ uploadMime = Some("application/zip")
        ELSE /\ pc = "failed"
             /\ outcome.kind = "UnsupportedFileType"
             /\ uploads = 0 /\ statusReqs = 0 /\ downloads = 0 /\ inflight = 0
             /\ uploadMime = None

C6_Witness ==
    /\ file_name = Some("report")
    /\ outcome.kind = "UnsupportedFileType"
    /\ uploads = 0

C8_ErrorsFatal ==
    /\ outcome.kind \notin {"Running", "Ok"} =>
           pc = "failed" /\ written = None /\ ExitCode = 1 /\ inflight = 0
    /\ pc = "failed" => outcome.kind \notin {"Running", "Ok"}
    /\ (Terminated /\ uploads = 0) => (statusReqs = 0 /\ downloads = 0 /\ pc = "failed")
    /\ (lastUpload # None /\ ~UploadDelivered(lastUpload[1])) =>
           pc = "failed" /\ statusReqs = 0 /\ downloads = 0
    /\ (lastStatus # None /\ ~IsNonTerminal(lastStatus[1])
        /\ ~IsCompletedWithUrl(lastStatus[1])) =>
           pc = "failed" /\ downloads = 0
    /\ outcome.kind = "PollTimeout" => downloads = 0
    /\ (lastDownload # None /\ ~DownloadDelivered(lastDownload[1])) => pc = "failed"
    /\ written # None =>
           /\ pc = "done" /\ outcome = Ok /\ ExitCode = 0
           /\ lastUpload # None /\ UploadDelivered(lastUpload[1])
           /\ lastStatus # None /\ IsCompletedWithUrl(lastStatus[1])
           /\ lastDownload # None /\ DownloadDelivered(lastDownload[1])

\* the download is answered 404 after a successful upload and wait
C8_Witness ==
    /\ lastDownload # None
    /\ lastDownload[1].net
    /\ lastDownload[1].http = 404
    /\ lastDownload[1].bytes
    /\ pc = "failed"
    /\ written = None

\* C9: a failure envelope yields the same service error text at the upload
\* and at the status endpoint: error if present, else message, else the
\* generic fallback.
C9_UniformDecoding ==
    /\ (lastUpload # None /\ IsFailureEnvelope(lastUpload[1])) =>
           outcome.text = "Upload failed: " \o ServiceErrorText(lastUpload[1].json[1])
    /\ (lastStatus # None /\ IsFailureEnvelope(lastStatus[1])) =>
           outcome.text = "Status check returned error: "
                          \o ServiceErrorText(lastStatus[1].json[1])

\* C10: an upload envelope with success=false fails submit with
\* ProtocolError whose text is error, else message, else the fallback, and
\* no status request follows.
C10_UploadFailureEnvelope ==
    (lastUpload # None /\ IsFailureEnvelope(lastUpload[1])) =>
        LET b == lastUpload[1].json[1] IN
        /\ pc = "failed"
        /\ outcome = Err("ProtocolError", "Upload failed: " \o ServiceErrorText(b))
        /\ b.error = Some("file too large") =>
               outcome.text = "Upload failed: file too large"
        /\ task_id = None
        /\ statusReqs = 0
        /\ downloads = 0
        /\ inflight = 0

\* both error and message are present: error wins
C10_Witness ==
    /\ lastUpload # None
    /\ IsFailureEnvelope(lastUpload[1])
    /\ lastUpload[1].json[1].error = Some("file too large")
    /\ lastUpload[1].json[1].message = Some("try later")
    /\ outcome.text = "Upload failed: file too large"

\* C11: a success envelope that lacks a required member stops the run: an
\* upload envelope without task identifier fails submit before any status
\* request; a status envelope without data, or Completed without download
\* reference, fails the wait at that attempt with no further poll and no
\* download.
C11_MissingField ==
    /\ (lastUpload # None /\ ~IsTransportError(lastUpload[1])
        /\ lastUpload[1].json # None /\ lastUpload[1].json[1].success
        /\ lastUpload[1].json[1].data = None) =>
           /\ pc = "failed"
           /\ outcome = Err("MissingField", "No task ID in response")
           /\ task_id = None
           /\ statusReqs = 0 /\ downloads = 0 /\ inflight = 0
    /\ (lastStatus # None /\ ~IsTransportError(lastStatus[1])
        /\ lastStatus[1].json # None /\ lastStatus[1].json[1].success
        /\ lastStatus[1].json[1].data = None) =>
           /\ pc = "failed"
           /\ outcome = Err("MissingField", "No status data in response")
           /\ statusReqs = nonTerminal + 1 /\ sleeps = nonTerminal
           /\ downloads = 0 /\ inflight = 0
    /\ (lastStatus # None /\ StatusDelivered(lastStatus[1])
        /\ StatusOf(lastStatus[1]).status = "Completed"
        /\ StatusOf(lastStatus[1]).downloadUrl = None) =>
           /\ pc = "failed"
           /\ outcome = Err("MissingField", "No download URL in completed status")
           /\ download_url = None
           /\ statusReqs = nonTerminal + 1 /\ sleeps = nonTerminal
           /\ downloads = 0 /\ inflight = 0

\* Completed without download reference on the second attempt
C11_Witness ==
    /\ lastStatus # None
    /\ StatusDelivered(lastStatus[1])
    /\ StatusOf(lastStatus[1]).status = "Completed"
    /\ StatusOf(lastStatus[1]).downloadUrl = None
    /\ statusReqs = 2
    /\ pc = "failed"

\* C12: normalize_url(r) is r itself exactly when r starts with "http://" or
\* "https://", is BASE_URL followed by r exactly when r starts with "/", and
\* is BASE_URL, "/" and r in every other case.
C12_NormalizeUrl ==
    (call.fn = "normalize_url" /\ ret # None) =>
        LET r == call.arg
            out == ret[1]
            absolute == StartsWith(r, "http://") \/ StartsWith(r, "https://")
            rooted == StartsWith(r, "/") IN
        /\ (out = r) <=> absolute
        /\ (out = BASE_URL \o r) <=> rooted
        /\ (out = BASE_URL \o "/" \o r) <=> (~absolute /\ ~rooted)
        /\ out \in {r, BASE_URL \o r, BASE_URL \o "/" \o r}

\* a reference that only resembles an absolute address is joined to the base
C12_Witness ==
    /\ call = [fn |-> "normalize_url", arg |-> "http:/a"]
    /\ ret = Some("https://texcompile.ru/http:/a")

\* C13: a duration of m milliseconds is rendered in the seconds form exactly
\* when m < 60000, in the minutes form exactly when 60000 <= m < 3600000 and
\* in the hours form exactly when m >= 3600000; an absent duration is
\* rendered as the unknown marker, which is not the rendering of 0 ms.
C13_DurationTiers ==
    (call.fn = "format_duration" /\ ret # None) =>
        IF call.arg = None
        THEN /\ ret[1] = "neizvestno"
             /\ ret[1] # "0 sek."
             /\ ~SecondsForm(ret[1]) /\ ~MinutesForm(ret[1]) /\ ~HoursForm(ret[1])
        ELSE LET m == call.arg[1]
                 out == ret[1] IN
             /\ SecondsForm(out) <=> m < 60000
             /\ MinutesForm(out) <=> (60000 <= m /\ m < 3600000)
             /\ HoursForm(out) <=> m >= 3600000
             /\ out # "neizvestno"
             /\ m = 0 => out = "0 sek."

\* the first duration of the hours tier
C13_Witness ==
    /\ call = [fn |-> "format_duration", arg |-> Some(3600000)]
    /\ ret = Some("1 ch. 0 m.")

\* the line printed for a Queued status that carries no queue position
QueuedLineWithoutPosition(d) ==
    "Status: Queued | Time in queue: " \o format_duration(d)

\* C14 as stated: a Queued response without queuePosition prints a line
\* without position, and every Queued response with a queuePosition prints a
\* line different from it.
C14_AbsentPositionDistinct ==
    (lastStatus # None /\ StatusDelivered(lastStatus[1])
     /\ StatusOf(lastStatus[1]).status = "Queued") =>
        LET d == StatusOf(lastStatus[1]) IN
        IF d.queuePosition = None
        THEN stdout = QueuedLineWithoutPosition(d) /\ ~Contains(stdout, "position")
        ELSE stdout # QueuedLineWithoutPosition(d)

\* C14 as amended: a Queued response without queuePosition prints a line
\* without position; a queuePosition n >= 1 prints "(position: n)", which
\* differs from that line; a queuePosition of 0 is printed like an absent one.
C14_AbsentPositionDistinctFromPositive ==
    (lastStatus # None /\ StatusDelivered(lastStatus[1])
     /\ StatusOf(lastStatus[1]).status = "Queued") =>
        LET d == StatusOf(lastStatus[1]) IN
        IF d.queuePosition = None
        THEN stdout = QueuedLineWithoutPosition(d) /\ ~Contains(stdout, "position")
        ELSE IF d.queuePosition[1] >= 1
        THEN /\ stdout = "Status: Queued (position: " \o ToString(d.queuePosition[1])
                         \o ") | Time in queue: " \o format_duration(d)
             /\ stdout # QueuedLineWithoutPosition(d)
        ELSE stdout = QueuedLineWithoutPosition(d)

\* a Queued response with neither position nor duration
C14_Witness ==
    /\ lastStatus # None
    /\ StatusDelivered(lastStatus[1])
    /\ StatusOf(lastStatus[1]).status = "Queued"
    /\ StatusOf(lastStatus[1]).queuePosition = None
    /\ stdout = "Status: Queued | Time in queue: neizvestno"
    /\ pc = "sleeping"

\* C15: the output name of an accepted file name is the name without its
\* final extension (.tex or .zip) followed by ".pdf".
C15_OutputName ==
    written # None =>
        LET f == file_name[1] IN
        /\ EndsWith(f, ".tex") \/ EndsWith(f, ".zip")
        /\ written = Some(SubSeq(f, 1, Len(f) - 4) \o ".pdf")

\* poll_status has been entered / has returned or raised its error
WaitStarted == pc = "poll_send" /\ attempt = 1
WaitEnded ==
    \/ pc \in {"download_send", "download_wait", "write", "done"}
    \/ pc = "failed" /\ statusReqs > 0

\* the errors poll_status can raise
WaitErrors ==
    {"CompilationFailed", "TransportError", "ProtocolError", "MissingField",
     "DecodeError", "PollTimeout"}

\* C16: whatever the responses are, a wait that has started ends, in exactly
\* one of: download reference returned, or one error of the wait; it never
\* issues more than MAX_POLL_ATTEMPTS status requests nor more than
\* MAX_POLL_ATTEMPTS - 1 sleeps.
C16_WaitTerminates ==
    /\ [](statusReqs <= MAX_POLL_ATTEMPTS /\ sleeps <= MAX_POLL_ATTEMPTS - 1)
    /\ [](WaitEnded =>
            \/ /\ download_url # None
               /\ lastStatus # None /\ IsCompletedWithUrl(lastStatus[1])
               /\ outcome.kind \notin {"CompilationFailed", "PollTimeout"}
            \/ /\ download_url = None
               /\ pc = "failed"
               /\ downloads = 0
               /\ outcome.kind \in WaitErrors)
    /\ (WaitStarted ~> WaitEnded)

\* the wait ends on the last attempt with a body that cannot be decoded
C16_Witness ==
    /\ WaitEnded
    /\ outcome.kind = "DecodeError"
    /\ statusReqs = MAX_POLL_ATTEMPTS
    /\ sleeps = MAX_POLL_ATTEMPTS - 1

\* C17: the sleeps never outnumber the status requests; none precedes the
\* first request; each further request is issued after exactly one more
\* sleep; and when the wait has ended, for whatever reason, there is one
\* sleep fewer than requests.
C17_Interleaving ==
    /\ sleeps <= statusReqs
    /\ statusReqs = 0 => sleeps = 0
    /\ pc = "poll_send" => (sleeps = statusReqs /\ attempt = statusReqs + 1)
    /\ pc = "poll_wait" => (sleeps = statusReqs - 1 /\ attempt = statusReqs)
    /\ pc = "sleeping" => (sleeps = statusReqs /\ attempt = statusReqs)
    /\ WaitEnded => sleeps = statusReqs - 1

\* the wait is ended by a Failed status on the fifth attempt
C17_Witness ==
    /\ WaitEnded
    /\ outcome.kind = "CompilationFailed"
    /\ statusReqs = 5
    /\ sleeps = 4

\* C18: a response is judged by its HTTP status first, then by the success
\* flag, then by the presence of data, then by the status value: a
\* non-success HTTP response or a success=false envelope aborts the wait
\* even when its data says Completed with a download reference, and a
\* reference is returned only from an HTTP-success, success=true response
\* with data whose status is Completed.
C18_CheckPrecedence ==
    /\ lastStatus # None =>
           LET w == lastStatus[1] IN
           /\ ~w.net => outcome = Err("TransportError", "Failed to check status")
           /\ (w.net /\ w.http \notin 200..299) =>
                  /\ pc = "failed"
                  /\ outcome.kind = "TransportError"
                  /\ download_url = None
           /\ (w.net /\ w.http \in 200..299 /\ w.json = None) =>
                  pc = "failed" /\ outcome.kind = "DecodeError"
           /\ (w.net /\ w.http \in 200..299 /\ w.json # None) =>
                  IF ~w.json[1].success
                  THEN /\ pc = "failed"
                       /\ outcome.kind = "ProtocolError"
                       /\ download_url = None
                  ELSE IF w.json[1].data = None
                  THEN pc = "failed" /\ outcome.kind = "MissingField"
                  ELSE outcome.kind \notin {"TransportError", "DecodeError",
                                            "ProtocolError"}
                       \/ downloads = 1
    /\ download_url # None =>
           /\ lastStatus # None
           /\ IsCompletedWithUrl(lastStatus[1])
           /\ download_url = StatusOf(lastStatus[1]).downloadUrl

\* a success=false envelope whose data says Completed with a reference
C18_Witness ==
    /\ lastStatus # None
    /\ lastStatus[1].http = 200
    /\ lastStatus[1].json # None
    /\ ~lastStatus[1].json[1].success
    /\ lastStatus[1].json[1].data = Some(CompletedData)
    /\ outcome.kind = "ProtocolError"
    /\ download_url = None

\* C19: the status strings "Queued", "Processing", "Completed" and "Failed"
\* are classified as those variants and every other string, whatever its
\* letter case, as Unknown carrying the string unchanged; hence among the
\* delivered statuses only "Completed" and "Failed" end the wait before the
\* attempts are used up.
C19_ExactClassification ==
    (lastStatus # None /\ StatusDelivered(lastStatus[1])) =>
        LET s == StatusOf(lastStatus[1]).status IN
        /\ s = "Queued" => StartsWith(stdout, "Status: Queued")
        /\ s = "Processing" => StartsWith(stdout, "Status: Processing... | Time: ")
        /\ s = "Completed" =>
               /\ StartsWith(stdout, "Status: Completed! | Compilation time: ")
               /\ WaitEnded
        /\ s = "Failed" => (WaitEnded /\ outcome.kind = "CompilationFailed")
        /\ s \notin KnownStatuses => stdout = "Status: " \o s \o " (unknown)"
        /\ s \notin {"Completed", "Failed"} =>
               IF statusReqs < MAX_POLL_ATTEMPTS
               THEN pc = "sleeping" /\ outcome = Running
               ELSE outcome.kind = "PollTimeout"
        /\ (WaitEnded /\ statusReqs < MAX_POLL_ATTEMPTS) => s \in {"Completed", "Failed"}

\* "failed" in lower case is printed as unknown and the wait goes on
C19_Witness ==
    /\ lastStatus # None
    /\ StatusDelivered(lastStatus[1])
    /\ StatusOf(lastStatus[1]).status = "failed"
    /\ stdout = "Status: failed (unknown)"
    /\ pc = "sleeping"

====
